---- MODULE Spec2Model ----
(***************************************************************************)
(* aprs2influxdb (src/aprs2influxdb/__main__.py): an APRS-IS feed is       *)
(* logged into, a heartbeat thread and a consumer thread are started, and  *)
(* every decoded packet is turned into an InfluxDB line by                 *)
(* jsonToLineProtocol and written by callback.                             *)
(*                                                                         *)
(* The source is Python 2 (StandardError, str.replace on the result of     *)
(* unicode.encode); exceptions are modelled by their class names and the   *)
(* Python 2 class hierarchy.                                               *)
(*                                                                         *)
(* A decoded packet (a dict) is a record whose fields are optional values: *)
(* <<>> is "key absent", <<v>> is "key present with value v".  Text that   *)
(* is processed character by character (the comment) is a sequence of code *)
(* points; text that is only formatted is a string.                        *)
(***************************************************************************)
EXTENDS Integers, Sequences, FiniteSets, TLC

\* ------------------------------------------------------------- bounds
\* longest comment (in characters) of the enumerated records
MaxLen == 2
\* longest telemetry vals list of the enumerated records
MaxVals == 5
\* packets the feed delivers in one run
MaxPackets == 3
\* heartbeats counted in one run (the count saturates)
MaxBeats == 2
\* sessions opened on the feed in one run
MaxLogins == 2

\* ------------------------------------------------------------- text
\* the code point of the double quote
Quote == 34

\* the character of a code point, for the code points the model uses
Chr(c) ==
    CASE c = 34 -> "\""
      [] c = 32 -> " "
      [] c = 72 -> "H"
      [] c = 97 -> "a"
      [] c = 100 -> "d"
      [] c = 101 -> "e"
      [] c = 104 -> "h"
      [] c = 105 -> "i"
      [] c = 115 -> "s"
      [] OTHER -> "<U+" \o ToString(c) \o ">"

\* a sequence of code points as text
RECURSIVE Text(_)
Text(cs) == IF cs = <<>> THEN "" ELSE Chr(Head(cs)) \o Text(Tail(cs))

\* ord(c) < 128
IsAscii(c) == c < 128

\* unicode.encode('ascii', 'ignore'): the code points above 127 are dropped
RECURSIVE EncodeAsciiIgnore(_)
EncodeAsciiIgnore(cs) ==
    IF cs = <<>> THEN <<>>
    ELSE IF IsAscii(Head(cs)) THEN <<Head(cs)>> \o EncodeAsciiIgnore(Tail(cs))
    ELSE EncodeAsciiIgnore(Tail(cs))

\* s.replace("\"", ""): every double quote is removed
RECURSIVE RemoveQuotes(_)
RemoveQuotes(cs) ==
    IF cs = <<>> THEN <<>>
    ELSE IF Head(cs) = Quote THEN RemoveQuotes(Tail(cs))
    ELSE <<Head(cs)>> \o RemoveQuotes(Tail(cs))

\* ",".join(xs)
RECURSIVE Join(_)
Join(xs) ==
    IF xs = <<>> THEN ""
    ELSE IF Len(xs) = 1 THEN xs[1]
    ELSE xs[1] \o "," \o Join(Tail(xs))

\* "{0}".format(v) of an optional text: an absent key read with .get(key) is None
FormatText(o) == IF o = <<>> THEN "None" ELSE o[1]

\* "{0}".format(n) of a number: its decimal digits
FormatNumber(n) == ToString(n)

\* jsonData.get(key, 0)
GetOrZero(o) == IF o = <<>> THEN 0 ELSE o[1]

\* ------------------------------------------------------------- exceptions
\* the classes (with their base classes) an exception of the given class is
\* an instance of
Bases(exc) ==
    CASE exc = "KeyError" -> {"KeyError", "LookupError", "StandardError", "Exception"}
      [] exc = "IndexError" -> {"IndexError", "LookupError", "StandardError", "Exception"}
      [] exc = "AttributeError" -> {"AttributeError", "StandardError", "Exception"}
      [] exc = "TypeError" -> {"TypeError", "StandardError", "Exception"}
      [] exc = "UnicodeDecodeError" ->
            {"UnicodeDecodeError", "UnicodeError", "ValueError", "StandardError", "Exception"}
      [] exc = "StandardError" -> {"StandardError", "Exception"}
      [] exc = "InfluxDBClientError" -> {"InfluxDBClientError", "Exception"}
      [] exc = "InfluxDBServerError" -> {"InfluxDBServerError", "Exception"}
      [] exc = "LoginError" -> {"LoginError", "GenericError", "Exception"}
      [] exc = "ConnectionError" -> {"ConnectionError", "GenericError", "Exception"}
      [] OTHER -> {exc}

\* does an except clause naming the classes in handlers catch exc
Catches(handlers, exc) == Bases(exc) \cap handlers # {}

NoExc == "none"
\* ------------------------------------------------------------- jsonToLineProtocol
\* "name={0}".format(value): an entry of tags or of fields is kept as its name
\* and the text of its value, and is written name=value
KV(name, text) == [k |-> name, v |-> text]
Entry(e) == e.k \o "=" \o e.v
Entries(es) == [i \in 1..Len(es) |-> Entry(es[i])]

\* lines 73-81: the three tags are read with .get, which never raises KeyError:
\* an absent key is formatted as None
TagList(jsonData) ==
    << KV("from", FormatText(jsonData.from)),
       KV("to", FormatText(jsonData.to)),
       KV("format", FormatText(jsonData.format)) >>

\* lines 83-90: the five position fields, each read with .get(key, 0)
PositionFields(jsonData) ==
    << KV("latitude", FormatNumber(GetOrZero(jsonData.latitude))),
       KV("longitude", FormatNumber(GetOrZero(jsonData.longitude))),
       KV("posAmbiguity", FormatNumber(GetOrZero(jsonData.posambiguity))),
       KV("altitude", FormatNumber(GetOrZero(jsonData.altitude))),
       KV("speed", FormatNumber(GetOrZero(jsonData.speed))) >>

\* lines 95-99: analog1..analog5 are appended one by one from vals[0..4]; the
\* first index past the end of vals raises IndexError after the appends before it
AnalogFields(vals) ==
    [i \in 1..(IF Len(vals) < 5 THEN Len(vals) ELSE 5) |->
        KV("analog" \o ToString(i), FormatNumber(vals[i]))]

\* line 93: if jsonData["telemetry"]["seq"], for a number
Truthy(n) == n # 0

\* lines 92-100, the body of the telemetry try block: the fields it has appended
\* when it ends, and the exception it ends with (NoExc when it runs to its end)
TelemetryBlock(jsonData) ==
    IF jsonData.telemetry = <<>> THEN [app |-> <<>>, exc |-> "KeyError"]
    ELSE LET t == jsonData.telemetry[1] IN
      IF t.seq = <<>> THEN [app |-> <<>>, exc |-> "KeyError"]
      ELSE IF ~Truthy(t.seq[1]) THEN [app |-> <<>>, exc |-> NoExc]
      ELSE LET sq == <<KV("sequenceNumber", FormatNumber(t.seq[1]))>> IN
        IF t.vals = <<>> THEN [app |-> sq, exc |-> "KeyError"]
        ELSE LET an == sq \o AnalogFields(t.vals[1]) IN
          IF Len(t.vals[1]) < 5 THEN [app |-> an, exc |-> "IndexError"]
          ELSE IF t.bits = <<>> THEN [app |-> an, exc |-> "KeyError"]
          ELSE [app |-> an \o <<KV("digital", FormatText(t.bits))>>, exc |-> NoExc]

\* line 102: except KeyError
TelemetryHandlers == {"KeyError"}

\* lines 107-110, the body of the comment try block.  jsonData.get("comment") is
\* None for an absent key, and None (like a number) has no encode attribute.  A
\* unicode comment loses its non-ASCII code points; a byte str comment is first
\* decoded as ASCII, which fails on a byte above 127.
CommentBlock(jsonData) ==
    IF jsonData.comment = <<>> THEN [app |-> <<>>, exc |-> "AttributeError"]
    ELSE LET c == jsonData.comment[1] IN
      IF c.type \notin {"unicode", "str"} THEN [app |-> <<>>, exc |-> "AttributeError"]
      ELSE IF c.type = "str" /\ \E i \in 1..Len(c.chars) : ~IsAscii(c.chars[i])
        THEN [app |-> <<>>, exc |-> "UnicodeDecodeError"]
      ELSE LET comment == EncodeAsciiIgnore(c.chars) IN
        IF comment # <<>>
        THEN [app |-> <<KV("comment", "\"" \o Text(RemoveQuotes(comment)) \o "\"")>>,
              exc |-> NoExc]
        ELSE [app |-> <<>>, exc |-> NoExc]

\* lines 112 and 115: except UnicodeError, except TypeError
CommentHandlers == {"UnicodeError", "TypeError"}

\* what a call of jsonToLineProtocol ends with: ret is "line" (with the tags and
\* fields the line was joined from), "None" or "raise" (with the exception);
\* log is what logger.error has written
ReturnLine(l, ts, fs, lg) ==
    [ret |-> "line", line |-> l, tags |-> ts, fields |-> fs, exc |-> NoExc, log |-> lg]
ReturnNone ==
    [ret |-> "None", line |-> "", tags |-> <<>>, fields |-> <<>>, exc |-> NoExc,
     log |-> <<>>]
Raise(e) ==
    [ret |-> "raise", line |-> "", tags |-> <<>>, fields |-> <<>>, exc |-> e,
     log |-> <<>>]

\* the format test left out: every packet with a format is encoded
IsUncompressedAnyFormat(jsonData) == jsonData.format[1] # ""

\* line 65: the packets that are encoded
IsUncompressed(jsonData) == jsonData.format[1] = "uncompressed"

\* lines 32-120.  A packet without a format key raises KeyError at line 65; for
\* any format but "uncompressed" the function falls off its end and returns
\* None.  logger.debug (line 104) is below the WARNING threshold createLog sets
\* and writes nothing.
jsonToLineProtocol(jsonData) ==
    IF jsonData.format = <<>> THEN Raise("KeyError")
    ELSE IF ~IsUncompressed(jsonData) THEN ReturnNone
    ELSE
      LET measurement == "packet"
          tags == TagList(jsonData)
          tagStr == Join(Entries(tags))
          fields1 == PositionFields(jsonData)
          tel == TelemetryBlock(jsonData)
          fields2 == fields1 \o tel.app
      IN
        IF tel.exc # NoExc /\ ~Catches(TelemetryHandlers, tel.exc)
        THEN Raise(tel.exc)
        ELSE
          LET com == CommentBlock(jsonData)
              fields == fields2 \o com.app
              fieldsStr == Join(Entries(fields))
              lg == IF com.exc # NoExc THEN <<com.exc>> ELSE <<>>
          IN
            IF com.exc # NoExc /\ ~Catches(CommentHandlers, com.exc)
            THEN Raise(com.exc)
            ELSE ReturnLine(measurement \o "," \o tagStr \o " " \o fieldsStr,
                            tags, fields, lg)

\* ------------------------------------------------------------- packets
Opt(S) == {<<>>} \cup {<<v>> : v \in S}

\* the code points comments are made of: a, the double quote, e-acute
Alphabet == {97, 34, 233}

RECURSIVE Strings(_)
Strings(n) ==
    IF n = 0 THEN {<<>>}
    ELSE LET shorter == Strings(n - 1) IN
        shorter \cup {<<c>> \o s : c \in Alphabet, s \in {x \in shorter : Len(x) = n - 1}}

\* He said "hi"
HeSaidHi == <<72, 101, 32, 115, 97, 105, 100, 32, 34, 104, 105, 34>>

Comments ==
    {[type |-> "int", chars |-> <<>>]}
    \cup [type : {"unicode", "str"}, chars : Strings(MaxLen) \cup {HeSaidHi}]

ValsOfLen(n) == [i \in 1..n |-> i]

Telemetries ==
    [seq : Opt({0, 5}),
     vals : Opt({ValsOfLen(n) : n \in 0..MaxVals}),
     bits : Opt({"10101"})]

\* the packets jsonToLineProtocol is called with; numbers are integers
Packets ==
    [format : Opt({"uncompressed", "compressed"}),
     from : Opt({"A"}),
     to : Opt({"B"}),
     latitude : Opt({45}),
     longitude : Opt({-93}),
     posambiguity : Opt({1}),
     altitude : Opt({300}),
     speed : Opt({12}),
     telemetry : Opt(Telemetries),
     comment : Opt(Comments)]
\* the packets the feed delivers in the runs of the whole program
PlainPacket ==
    [format |-> <<"uncompressed">>, from |-> <<"A">>, to |-> <<"B">>,
     latitude |-> <<45>>, longitude |-> <<-93>>, posambiguity |-> <<>>,
     altitude |-> <<>>, speed |-> <<>>, telemetry |-> <<>>,
     comment |-> <<[type |-> "unicode", chars |-> <<97>>]>>]

FeedPackets ==
    { PlainPacket,
      [PlainPacket EXCEPT !.format = <<"compressed">>],
      [PlainPacket EXCEPT !.comment = <<>>] }

\* ------------------------------------------------------------- state
VARIABLES
    mainPc,     \* main(): "connect", "start_t1", "start_t2", "returned", "exited"
    exitCode,   \* <<>> while the process runs, <<n>> once it has ended with status n
    logins,     \* sessions opened on the feed by AIS.connect()
    hbPc,       \* heartbeat thread: "idle", "send", "sleep", "dead"
    beats,      \* status lines sent by the heartbeat thread
    hbTrace,    \* what the heartbeat thread has done, its first steps in order
    consPc,     \* consumer thread: "idle", "wait", "write", "dead"
    inbox,      \* packets received from the feed and not yet given to callback
    arrived,    \* packets received from the feed
    cur,        \* the packet callback is handling: <<>> or <<[id, pkt]>>
    line,       \* the line callback is writing
    handled,    \* the packets callback is done with, and how each call ended
    writes,     \* the write_points calls: packet, lines, outcome
    log,        \* what logger.error has written
    encIn,      \* the packet of a call of jsonToLineProtocol on its own
    encOut,     \* the result of that call
    interval    \* --interval, the minutes between heartbeats, in tenths of a minute

vars == <<mainPc, exitCode, logins, hbPc, beats, hbTrace, consPc, inbox, arrived, cur,
          line, handled, writes, log, encIn, encOut, interval>>

progVars == <<mainPc, exitCode, logins, hbPc, beats, hbTrace, consPc, inbox, arrived,
              cur, line, handled, writes, log, interval>>

\* what the logger writes: logger.error(e) writes the exception, logger.error(packet)
\* writes the packet
LogExc(who, e) == [src |-> who, what |-> "exception", exc |-> e, id |-> 0]
LogPacket(who, n) == [src |-> who, what |-> "packet", exc |-> NoExc, id |-> n]

NotCalled ==
    [ret |-> "not called", line |-> "", tags |-> <<>>, fields |-> <<>>, exc |-> NoExc,
     log |-> <<>>]

ProgInit ==
    /\ mainPc = "connect"
    /\ exitCode = <<>>
    /\ logins = 0
    /\ hbPc = "idle"
    /\ beats = 0
    /\ hbTrace = <<>>
    /\ consPc = "idle"
    /\ inbox = <<>>
    /\ arrived = 0
    /\ cur = <<>>
    /\ line = ""
    /\ handled = <<>>
    /\ writes = <<>>
    /\ log = <<>>

\* --interval as given on the command line: 0.5 minutes, or the default of 15
Intervals == {5, 150}

Init == ProgInit /\ encIn = <<>> /\ encOut = NotCalled /\ interval \in Intervals

\* ------------------------------------------------------------- main
\* what AIS.connect() does: it returns, or raises an exception of one of these
\* classes
ConnectOutcomes == {"ok", "LoginError", "ConnectionError", "Exception"}

\* the login with sys.exit(1) left out of the except clauses: the failure is
\* logged and main goes on to start the threads
MainConnectNoExit(outcome) ==
    /\ mainPc = "connect"
    /\ mainPc' = "start_t1"
    /\ logins' = IF outcome = "ok" THEN logins + 1 ELSE logins
    /\ log' = IF outcome = "ok" THEN log ELSE Append(log, LogExc("main", outcome))
    /\ UNCHANGED <<exitCode, hbPc, beats, hbTrace, consPc, inbox, arrived, cur, line, handled,
                   writes, encIn, encOut, interval>>

\* lines 236-246: the login, and the two except clauses that end the process.
\* An exception of another class leaves main, which ends the process with a
\* traceback and exit code 1 as well.
MainConnect(outcome) ==
    /\ mainPc = "connect"
    /\ IF outcome = "ok"
       THEN /\ logins' = logins + 1
            /\ mainPc' = "start_t1"
            /\ UNCHANGED <<exitCode, log>>
       ELSE IF Catches({"LoginError"}, outcome) \/ Catches({"ConnectionError"}, outcome)
       THEN /\ log' = Append(log, LogExc("main", outcome))
            /\ exitCode' = <<1>>
            /\ mainPc' = "exited"
            /\ UNCHANGED logins
       ELSE /\ exitCode' = <<1>>
            /\ mainPc' = "exited"
            /\ UNCHANGED <<logins, log>>
    /\ UNCHANGED <<hbPc, beats, hbTrace, consPc, inbox, arrived, cur, line, handled, writes,
                   encIn, encOut, interval>>

\* main logging in a second time before it starts the heartbeat thread
MainStartHeartbeatAfterLogin ==
    /\ mainPc = "start_t1"
    /\ mainPc' = "start_t2"
    /\ hbPc' = "send"
    /\ logins' = logins + 1
    /\ UNCHANGED <<exitCode, beats, hbTrace, consPc, inbox, arrived, cur, line,
                   handled, writes, log, encIn, encOut, interval>>

\* lines 249 and 255: t1.start()
MainStartHeartbeat ==
    /\ mainPc = "start_t1"
    /\ mainPc' = "start_t2"
    /\ hbPc' = "send"
    /\ UNCHANGED <<exitCode, logins, beats, hbTrace, consPc, inbox, arrived, cur, line,
                   handled, writes, log, encIn, encOut, interval>>

\* lines 252 and 256: t2.start(); consumer() blocks in conn.consumer
MainStartConsumer ==
    /\ mainPc = "start_t2"
    /\ mainPc' = "returned"
    /\ consPc' = "wait"
    /\ UNCHANGED <<exitCode, logins, hbPc, beats, hbTrace, inbox, arrived, cur, line,
                   handled, writes, log, encIn, encOut, interval>>

\* ------------------------------------------------------------- heartbeat
Min(a, b) == IF a < b THEN a ELSE b

\* the heartbeat thread's steps are recorded up to this many
TraceCap == 2 * MaxBeats + 1

Record(trace, event) == IF Len(trace) < TraceCap THEN Append(trace, event) ELSE trace

Sent == [did |-> "send", secs |-> 0]
Failed == [did |-> "send failed", secs |-> 0]
Slept(secs) == [did |-> "sleep", secs |-> secs]

\* a heartbeat that catches the exception of sendall and goes on to sleep
HeartbeatSendCaught(ok) ==
    /\ hbPc = "send"
    /\ hbPc' = "sleep"
    /\ beats' = IF ok THEN Min(beats + 1, MaxBeats) ELSE beats
    /\ hbTrace' = Record(hbTrace, IF ok THEN Sent ELSE Failed)
    /\ UNCHANGED <<mainPc, exitCode, logins, consPc, inbox, arrived, cur, line,
                   handled, writes, log, encIn, encOut, interval>>

\* lines 178-185: conn.sendall(status); an exception of sendall is not caught
\* and ends the thread
HeartbeatSend(ok) ==
    /\ hbPc = "send"
    /\ IF ok
       THEN /\ hbPc' = "sleep"
            /\ beats' = Min(beats + 1, MaxBeats)
            /\ hbTrace' = Record(hbTrace, Sent)
       ELSE /\ hbPc' = "dead"
            /\ hbTrace' = Record(hbTrace, Failed)
            /\ UNCHANGED beats
    /\ UNCHANGED <<mainPc, exitCode, logins, consPc, inbox, arrived, cur, line,
                   handled, writes, log, encIn, encOut, interval>>

\* the interval taken as seconds: the conversion from minutes left out
SleepSecondsUnconverted(tenths) == tenths \div 10

\* line 188: float(interval) * 60, the interval being kept in tenths of a minute
SleepSeconds(tenths) == tenths * 6

\* a heartbeat that wakes up only while the consumer is idle in conn.consumer
HeartbeatSleepWhenConsumerIdle ==
    /\ hbPc = "sleep"
    /\ consPc = "wait"
    /\ hbPc' = "send"
    /\ hbTrace' = Record(hbTrace, Slept(SleepSeconds(interval)))
    /\ UNCHANGED <<mainPc, exitCode, logins, beats, consPc, inbox, arrived, cur,
                   line, handled, writes, log, encIn, encOut, interval>>

\* line 188: time.sleep(float(interval) * 60) returns, the loop starts over
HeartbeatSleep ==
    /\ hbPc = "sleep"
    /\ hbPc' = "send"
    /\ hbTrace' = Record(hbTrace, Slept(SleepSeconds(interval)))
    /\ UNCHANGED <<mainPc, exitCode, logins, beats, consPc, inbox, arrived, cur,
                   line, handled, writes, log, encIn, encOut, interval>>

\* ------------------------------------------------------------- consumer
\* the feed sends a packet on the open session of the running process
Arrive(pkt) ==
    /\ logins > 0
    /\ exitCode = <<>>
    /\ arrived < MaxPackets
    /\ arrived' = arrived + 1
    /\ inbox' = Append(inbox, [id |-> arrived + 1, pkt |-> pkt])
    /\ UNCHANGED <<mainPc, exitCode, logins, hbPc, beats, hbTrace, consPc, cur, line,
                   handled, writes, log, encIn, encOut, interval>>

\* line 166, immortal=True: when the session drops, conn.consumer logs in again
Reconnect ==
    /\ consPc = "wait"
    /\ logins < MaxLogins
    /\ logins' = logins + 1
    /\ UNCHANGED <<mainPc, exitCode, hbPc, beats, hbTrace, consPc, inbox, arrived, cur, line,
                   handled, writes, log, encIn, encOut, interval>>

\* a call of callback that has ended: its packet, and "returned" or the
\* exception that left it
Ended(p, how) == [id |-> p.id, pkt |-> p.pkt, end |-> how]

\* the newest packet first
NextPacketNewest(box) == box[Len(box)]

\* line 166: conn.consumer gives the packets to callback one at a time, in the
\* order they were received
NextPacket(box) == Head(box)

\* the test of line 135 left out: write_points is called whatever was returned
HasLineAlways(r) == r.ret \in {"line", "None"}

\* line 135: if line (None and the empty string are falsy)
HasLine(r) == r.ret = "line" /\ r.line # ""

\* lines 129-136: conn.consumer calls callback with the next packet; the packet
\* is encoded.  Without a line callback returns; an exception of the encoder
\* leaves callback and conn.consumer, and the thread ends.
CallbackEncode ==
    /\ consPc = "wait"
    /\ inbox # <<>>
    /\ LET p == NextPacket(inbox)
           r == jsonToLineProtocol(p.pkt)
       IN /\ inbox' = Tail(inbox)
          /\ log' = log \o [i \in 1..Len(r.log) |-> LogExc("encoder", r.log[i])]
          /\ CASE r.ret = "raise" ->
                    /\ consPc' = "dead"
                    /\ handled' = Append(handled, Ended(p, r.exc))
                    /\ UNCHANGED <<cur, line>>
               [] r.ret # "raise" /\ HasLine(r) ->
                    /\ consPc' = "write"
                    /\ cur' = <<p>>
                    /\ line' = r.line
                    /\ UNCHANGED handled
               [] OTHER ->
                    /\ consPc' = "wait"
                    /\ handled' = Append(handled, Ended(p, "returned"))
                    /\ UNCHANGED <<cur, line>>
    /\ UNCHANGED <<mainPc, exitCode, logins, hbPc, beats, hbTrace, arrived, writes, encIn,
                   encOut, interval>>

\* what influxConn.write_points does: it returns, or raises an exception of
\* one of these classes
WriteOutcomes == {"ok", "StandardError", "InfluxDBClientError", "InfluxDBServerError"}

\* the except clauses without the one for InfluxDBClientError
WriteHandlerStandardOnly(exc) ==
    IF Catches({"StandardError"}, exc) THEN <<"StandardError">> ELSE <<>>

\* lines 140-145: the except clauses of callback, in their order, and what each
\* one logs
WriteHandler(exc) ==
    IF Catches({"StandardError"}, exc) THEN <<"StandardError">>
    ELSE IF Catches({"InfluxDBClientError"}, exc) THEN <<"InfluxDBClientError">>
    ELSE <<>>

\* lines 137-145: write_points([line], protocol='line') and its except clauses
CallbackWrite(outcome) ==
    /\ consPc = "write"
    /\ LET p == cur[1]
           h == WriteHandler(outcome)
       IN /\ writes' = Append(writes, [id |-> p.id, lines |-> <<line>>,
                                        outcome |-> outcome])
          /\ IF outcome = "ok"
             THEN /\ consPc' = "wait"
                  /\ handled' = Append(handled, Ended(p, "returned"))
                  /\ UNCHANGED log
             ELSE IF h = <<"StandardError">>
             THEN /\ consPc' = "wait"
                  /\ handled' = Append(handled, Ended(p, "returned"))
                  /\ log' = log \o <<LogExc("callback", outcome), LogPacket("callback", p.id)>>
             ELSE IF h = <<"InfluxDBClientError">>
             THEN /\ consPc' = "wait"
                  /\ handled' = Append(handled, Ended(p, "returned"))
                  /\ log' = Append(log, LogExc("callback", outcome))
             ELSE /\ consPc' = "dead"
                  /\ handled' = Append(handled, Ended(p, outcome))
                  /\ UNCHANGED log
    /\ cur' = <<>>
    /\ line' = ""
    /\ UNCHANGED <<mainPc, exitCode, logins, hbPc, beats, hbTrace, inbox, arrived, encIn,
                   encOut, interval>>

\* ------------------------------------------------------------- the process
\* lines 255-256: main returns once both threads are started.  The threads are
\* no daemon threads, so the interpreter waits for them; when both have ended,
\* each by an exception that left it, the process ends with exit status 0.
ProcessEnd ==
    /\ mainPc = "returned"
    /\ hbPc = "dead"
    /\ consPc = "dead"
    /\ exitCode = <<>>
    /\ exitCode' = <<0>>
    /\ UNCHANGED <<mainPc, logins, hbPc, beats, hbTrace, consPc, inbox, arrived, cur,
                   line, handled, writes, log, encIn, encOut, interval>>

\* ------------------------------------------------------------- the program
Next ==
    \/ \E o \in ConnectOutcomes : MainConnect(o)
    \/ MainStartHeartbeat
    \/ MainStartConsumer
    \/ \E ok \in BOOLEAN : HeartbeatSend(ok)
    \/ HeartbeatSleep
    \/ \E pkt \in FeedPackets : Arrive(pkt)
    \/ Reconnect
    \/ CallbackEncode
    \/ \E o \in WriteOutcomes : CallbackWrite(o)
    \/ ProcessEnd

Spec == Init /\ [][Next]_vars

\* the program when every conn.sendall of the heartbeat succeeds: the heartbeat
\* thread never ends, and so the process never ends after a login that succeeded
NextSendsSucceed ==
    \/ \E o \in ConnectOutcomes : MainConnect(o)
    \/ MainStartHeartbeat
    \/ MainStartConsumer
    \/ HeartbeatSend(TRUE)
    \/ HeartbeatSleep
    \/ \E pkt \in FeedPackets : Arrive(pkt)
    \/ Reconnect
    \/ CallbackEncode
    \/ \E o \in WriteOutcomes : CallbackWrite(o)

\* The main thread and the heartbeat thread are threads of their own that the
\* scheduler keeps running: a step either of them can take is taken, sendall
\* returns and time.sleep returns.  Nothing is assumed of the feed, of
\* write_points or of the consumer thread, which may block for ever.
SpecFair ==
    /\ Init
    /\ [][NextSendsSucceed]_vars
    /\ WF_vars(\E o \in ConnectOutcomes : MainConnect(o))
    /\ WF_vars(MainStartHeartbeat)
    /\ WF_vars(MainStartConsumer)
    /\ WF_vars(HeartbeatSend(TRUE))
    /\ WF_vars(HeartbeatSleep)

\* ------------------------------------------------------------- the encoder alone
\* one call of jsonToLineProtocol on any packet
Encode(jsonData) ==
    /\ encIn' = <<jsonData>>
    /\ encOut' = jsonToLineProtocol(jsonData)
    /\ UNCHANGED progVars

NextEnc ==
    /\ encOut.ret = "not called"
    /\ \E jsonData \in Packets : Encode(jsonData)

\* line 26: the default of --interval, 15 minutes
InitEnc == ProgInit /\ encIn = <<>> /\ encOut = NotCalled /\ interval = 150

SpecEnc == InitEnc /\ [][NextEnc]_vars
\* ------------------------------------------------------------- properties
\* the write_points errors callback has an except clause for
CaughtWriteErrors == {"StandardError", "InfluxDBClientError"}

\* how the call of callback for packet id ended, <<>> while it has not ended
EndOf(id) ==
    LET ks == {k \in 1..Len(handled) : handled[k].id = id}
    IN IF ks = {} THEN <<>> ELSE <<handled[CHOOSE k \in ks : TRUE].end>>

\* C1: when the write of a packet fails with a generic error or with the
\* storage client's error, callback returns normally and the consumer goes on
\* to the next packet: it is waiting for it, handling it, or has ended for a
\* reason of a later packet.
C1_WriteFailureDoesNotStopConsumer ==
    \A k \in 1..Len(writes) :
        writes[k].outcome \in CaughtWriteErrors =>
            /\ EndOf(writes[k].id) = <<"returned">>
            /\ (handled[Len(handled)].id = writes[k].id /\ cur = <<>>) => consPc = "wait"

\* C1 witness: the first write failed with the storage client's error and the
\* write of the next packet was made
C1_Witness ==
    /\ Len(writes) >= 2
    /\ writes[1].outcome = "InfluxDBClientError"
    /\ writes[2].id = writes[1].id + 1
    /\ \E k \in 1..Len(writes) : writes[k].outcome = "StandardError"

\* the packet of a call of jsonToLineProtocol on its own
EncCalled == encOut.ret # "not called"
EncPacket == encIn[1]
EncUncompressed == EncPacket.format = <<"uncompressed">>

\* C2: the encoder never raises for a packet whose format is "uncompressed":
\* it returns a line.
C2_EncoderNeverRaises ==
    (EncCalled /\ EncUncompressed) => encOut.ret = "line"

\* C3: for a packet whose format is present and is not "uncompressed" the
\* encoder returns None and raises nothing, whatever the other fields are.
C3_OtherFormatsReturnNone ==
    (EncCalled /\ EncPacket.format # <<>> /\ ~EncUncompressed) =>
        (encOut.ret = "None" /\ encOut.exc = NoExc /\ encOut.line = "")

\* C3 witness: a compressed packet without a comment and with a telemetry vals
\* list of three entries was encoded to None
C3_Witness ==
    /\ EncCalled
    /\ EncPacket.format = <<"compressed">>
    /\ EncPacket.comment = <<>>
    /\ EncPacket.telemetry # <<>>
    /\ EncPacket.telemetry[1].seq = <<5>>
    /\ EncPacket.telemetry[1].vals = <<ValsOfLen(3)>>
    /\ encOut.ret = "None"

\* the login failures main has an except clause for
LoginFailed == \E k \in 1..Len(log) : log[k].src = "main"

\* C4: the login comes before both threads.  A login that fails ends the
\* process with exit code 1 and neither thread is ever started: no heartbeat
\* is sent and no packet is consumed.  A thread runs only after a login that
\* succeeded, in a process that has not exited with code 1.
C4_LoginBeforeThreads ==
    /\ LoginFailed => (exitCode = <<1>> /\ mainPc = "exited")
    /\ exitCode = <<1>> =>
          /\ hbPc = "idle" /\ consPc = "idle"
          /\ beats = 0 /\ handled = <<>> /\ writes = <<>> /\ cur = <<>>
    /\ (hbPc # "idle" \/ consPc # "idle") => (logins >= 1 /\ exitCode # <<1>>)
    /\ mainPc = "connect" => (hbPc = "idle" /\ consPc = "idle" /\ logins = 0)

\* C4 witness: the login was rejected and the process has exited with code 1
C4_Witness ==
    /\ log = <<LogExc("main", "LoginError")>>
    /\ exitCode = <<1>>
    /\ hbPc = "idle"
    /\ consPc = "idle"

\* the packets callback has been called with
Started == Len(handled) + Len(cur)

\* C5: packets are handled one at a time in the order they arrived: the
\* calls of callback that have ended are those of packets 1..n in this order,
\* the call in progress is that of packet n+1, the packets still waiting are
\* the later ones in their order, and the writes are made in the order of
\* their packets.
C5_HandledInArrivalOrder ==
    /\ \A k \in 1..Len(handled) : handled[k].id = k
    /\ cur # <<>> => cur[1].id = Len(handled) + 1
    /\ \A j \in 1..Len(inbox) : inbox[j].id = Started + j
    /\ \A k \in 1..Len(writes) :
          /\ writes[k].id <= Started
          /\ k > 1 => writes[k - 1].id < writes[k].id

\* C5 witness: three packets were handled and the first and the third were
\* written
C5_Witness ==
    /\ Len(handled) = 3
    /\ Len(writes) = 2
    /\ writes[1].id = 1
    /\ writes[2].id = 3

\* the text of 0
Zero == FormatNumber(0)

\* the packet {format: "uncompressed", from: "A", to: "B"}
OnlyFromTo ==
    [format |-> <<"uncompressed">>, from |-> <<"A">>, to |-> <<"B">>,
     latitude |-> <<>>, longitude |-> <<>>, posambiguity |-> <<>>,
     altitude |-> <<>>, speed |-> <<>>, telemetry |-> <<>>, comment |-> <<>>]

\* C6: for an uncompressed packet the encoder emits each absent position
\* field with the value 0, and the packet with only format, from and to is
\* encoded to the line of the position fields at 0.
C6_AbsentNumbersAreZero ==
    (EncCalled /\ EncUncompressed) =>
        /\ encOut.ret = "line"
        /\ Len(encOut.fields) >= 5
        /\ EncPacket.latitude = <<>> => encOut.fields[1] = KV("latitude", Zero)
        /\ EncPacket.longitude = <<>> => encOut.fields[2] = KV("longitude", Zero)
        /\ EncPacket.posambiguity = <<>> => encOut.fields[3] = KV("posAmbiguity", Zero)
        /\ EncPacket.altitude = <<>> => encOut.fields[4] = KV("altitude", Zero)
        /\ EncPacket.speed = <<>> => encOut.fields[5] = KV("speed", Zero)
        /\ EncPacket = OnlyFromTo =>
              encOut.line = "packet,from=A,to=B,format=uncompressed "
                            \o "latitude=0,longitude=0,posAmbiguity=0,altitude=0,speed=0"

\* the names of the telemetry fields
TelemetryNames ==
    {"sequenceNumber", "analog1", "analog2", "analog3", "analog4", "analog5", "digital"}

\* telemetry.seq is present and truthy
HasTruthySeq(pkt) ==
    /\ pkt.telemetry # <<>>
    /\ pkt.telemetry[1].seq # <<>>
    /\ Truthy(pkt.telemetry[1].seq[1])

\* C7: for an uncompressed packet the encoder emits telemetry fields exactly
\* when telemetry.seq is present and truthy, and with five vals they follow
\* the five position fields as sequenceNumber, analog1..analog5, digital, with
\* analogN = vals[N-1] and digital = bits.
C7_TelemetryIffTruthySeq ==
    (EncCalled /\ EncUncompressed) =>
        /\ HasTruthySeq(EncPacket) <=>
              \E i \in 1..Len(encOut.fields) : encOut.fields[i].k \in TelemetryNames
        /\ ( /\ HasTruthySeq(EncPacket)
             /\ EncPacket.telemetry[1].vals = <<ValsOfLen(5)>>
             /\ EncPacket.telemetry[1].bits # <<>> ) =>
              /\ Len(encOut.fields) >= 12
              /\ SubSeq(encOut.fields, 6, 12) =
                    << KV("sequenceNumber", ToString(EncPacket.telemetry[1].seq[1])),
                       KV("analog1", "1"), KV("analog2", "2"), KV("analog3", "3"),
                       KV("analog4", "4"), KV("analog5", "5"),
                       KV("digital", EncPacket.telemetry[1].bits[1]) >>

\* cs without its double quotes, the other characters in their order
WithoutQuotes(cs) ==
    LET keep == {i \in 1..Len(cs) : cs[i] # Quote}
    IN [n \in 1..Cardinality(keep) |->
            cs[CHOOSE i \in keep : Cardinality({j \in keep : j <= i}) = n]]

\* the comment is a string with a double quote in it
HasQuotedComment(pkt) ==
    /\ pkt.comment # <<>>
    /\ pkt.comment[1].type \in {"unicode", "str"}
    /\ \E i \in 1..Len(pkt.comment[1].chars) : pkt.comment[1].chars[i] = Quote

\* C8: for an uncompressed packet with a string comment that has double
\* quotes, the last field of the line is comment="<value>", the value being the
\* comment without its double quotes and with its other characters in order.
C8_CommentQuotesRemoved ==
    (EncCalled /\ EncUncompressed /\ HasQuotedComment(EncPacket)) =>
        /\ encOut.ret = "line"
        /\ encOut.fields[Len(encOut.fields)] =
              KV("comment",
                 "\"" \o Text(WithoutQuotes(EncPacket.comment[1].chars)) \o "\"")

\* C9: for every uncompressed packet the encoder returns a line: "packet,",
\* the tags from, to, format joined by commas, one space, the fields joined by
\* commas.
C9_LineShape ==
    (EncCalled /\ EncUncompressed) =>
        /\ encOut.ret = "line"
        /\ [i \in 1..Len(encOut.tags) |-> encOut.tags[i].k] = <<"from", "to", "format">>
        /\ encOut.line = "packet," \o Join(Entries(encOut.tags)) \o " "
                            \o Join(Entries(encOut.fields))

\* C11: with sends that succeed and fair scheduling the heartbeat thread, once
\* started, sends a status line again and again, whatever the consumer does:
\* a heartbeat that is due is sent, and after each one the next becomes due,
\* also while the consumer waits for data, is inside write_points or has ended.
C11_HeartbeatIndependentOfConsumer ==
    /\ (mainPc = "start_t1") ~> (hbPc = "send")
    /\ (hbPc = "send") ~> (hbPc = "sleep")
    /\ (hbPc = "sleep") ~> (hbPc = "send")

\* C11 witness: two heartbeats were sent and a third is due while the consumer
\* is inside write_points
C11_Witness ==
    /\ consPc = "write"
    /\ hbPc = "send"
    /\ hbTrace = <<Sent, Slept(SleepSeconds(interval)), Sent, Slept(SleepSeconds(interval))>>

\* the exceptions the encoder raises for a field it cannot encode
EncoderExceptions == {"KeyError", "IndexError", "AttributeError"}

\* C12: after a successful startup no per-field encoding failure and no
\* per-record storage failure leaves the consumer: callback returns normally
\* for every packet; and the process is ended only by a failure of the login
\* at startup.
C12_FailuresStayInConsumer ==
    /\ \A k \in 1..Len(handled) :
          handled[k].end \notin (EncoderExceptions \cup CaughtWriteErrors)
    /\ consPc = "dead" =>
          handled[Len(handled)].end \notin (EncoderExceptions \cup CaughtWriteErrors)
    /\ exitCode # <<>> => (mainPc = "exited" /\ logins = 0)

\* the write_points calls made for packet id
WritesOf(id) == {j \in 1..Len(writes) : writes[j].id = id}

\* C13: for each packet the consumer calls write_points if and only if the
\* encoder returned a line for it, and then once, with that one line as the
\* whole payload; a packet being handled has had a line returned and is not
\* written yet.
C13_OneWritePerLine ==
    /\ \A k \in 1..Len(handled) :
          LET r == jsonToLineProtocol(handled[k].pkt)
              ws == WritesOf(handled[k].id)
          IN /\ (r.ret = "line") <=> (ws # {})
             /\ Cardinality(ws) <= 1
             /\ \A j \in ws : writes[j].lines = <<r.line>>
    /\ cur # <<>> =>
          /\ jsonToLineProtocol(cur[1].pkt).ret = "line"
          /\ line = jsonToLineProtocol(cur[1].pkt).line
          /\ WritesOf(cur[1].id) = {}
    /\ \A j \in 1..Len(writes) : \E k \in 1..Len(handled) : handled[k].id = writes[j].id

\* C13 witness: three packets were handled: one written, one of another format
\* that caused no write, one written with a failure
C13_Witness ==
    /\ Len(handled) = 3
    /\ Len(writes) = 2
    /\ handled[2].pkt.format = <<"compressed">>
    /\ WritesOf(2) = {}
    /\ writes[2].id = 3
    /\ writes[2].outcome = "StandardError"

\* C14: a send that fails is not caught: it ends the heartbeat thread, no
\* heartbeat is sent after that, and the consumer is left as it is and goes on
\* handling the packets delivered to it.
C14_SendFailureEndsHeartbeat ==
    [][ /\ HeartbeatSend(FALSE) =>
              /\ hbPc' = "dead"
              /\ UNCHANGED <<consPc, inbox, cur, line, handled, writes, exitCode>>
        /\ hbPc = "dead" =>
              /\ hbPc' = "dead" /\ beats' = beats /\ hbTrace' = hbTrace
              /\ (consPc = "wait" /\ inbox # <<>>) => ENABLED CallbackEncode
              /\ consPc = "write" => ENABLED CallbackWrite("ok")
      ]_vars

\* C14 witness: the second send failed, and the consumer has handled three
\* packets
C14_Witness ==
    /\ hbPc = "dead"
    /\ hbTrace = <<Sent, Slept(SleepSeconds(interval)), Failed>>
    /\ beats = 1
    /\ Len(handled) = 3
    /\ consPc = "wait"

\* interval minutes in seconds, the interval being kept in tenths of a minute
IntervalSeconds == (interval * 60) \div 10

\* C15: the heartbeat thread alternates send and sleep and starts with a
\* send; each sleep lasts interval*60 seconds (30 seconds for 0.5 minutes);
\* the thread leaves the loop only when a send fails.
C15_SendSleepAlternate ==
    /\ hbPc = "idle" => hbTrace = <<>>
    /\ \A i \in 1..Len(hbTrace) :
          /\ i % 2 = 1 => hbTrace[i] \in {Sent, Failed}
          /\ i % 2 = 0 => hbTrace[i] = Slept(IntervalSeconds)
          /\ hbTrace[i] = Failed => (i = Len(hbTrace) /\ hbPc = "dead")
          /\ (interval = 5 /\ hbTrace[i].did = "sleep") => hbTrace[i].secs = 30
    /\ Len(hbTrace) < TraceCap =>
          /\ hbPc = "send" <=> (mainPc \notin {"connect", "start_t1", "exited"}
                                 /\ Len(hbTrace) % 2 = 0)
          /\ hbPc = "sleep" <=> (hbTrace # <<>> /\ hbTrace[Len(hbTrace)] = Sent)
          /\ hbPc = "dead" <=> (hbTrace # <<>> /\ hbTrace[Len(hbTrace)] = Failed)

\* C15 witness: with an interval of 0.5 minutes three heartbeats were sent, 30
\* seconds after one another
C15_Witness ==
    /\ interval = 5
    /\ hbTrace = <<Sent, Slept(30), Sent, Slept(30), Sent>>
    /\ hbPc = "sleep"

\* the names of the tags of the returned line
TagNames == {encOut.tags[i].k : i \in 1..Len(encOut.tags)}

\* C16: for an uncompressed packet without from (without to) the line has no
\* from= (to=) tag, and has the remaining tags and all the fields.
C16_MissingTagOmitted ==
    (EncCalled /\ EncUncompressed) =>
        /\ EncPacket.from = <<>> => "from" \notin TagNames
        /\ EncPacket.to = <<>> => "to" \notin TagNames
        /\ (encOut.ret = "line" /\ (EncPacket.from = <<>> \/ EncPacket.to = <<>>)) =>
              /\ "format" \in TagNames
              /\ EncPacket.from # <<>> => "from" \in TagNames
              /\ EncPacket.to # <<>> => "to" \in TagNames
              /\ Len(encOut.fields) >= 5

\* telemetry.seq is truthy and telemetry.vals has fewer than five entries
HasShortVals(pkt) ==
    /\ HasTruthySeq(pkt)
    /\ pkt.telemetry[1].vals # <<>>
    /\ Len(pkt.telemetry[1].vals[1]) < 5

\* the comment is a string
HasStringComment(pkt) ==
    pkt.comment # <<>> /\ pkt.comment[1].type \in {"unicode", "str"}

\* C17: for an uncompressed packet with a truthy seq and fewer than five vals
\* the lookup failure is caught in the encoder, which returns a line with the
\* tags, the five position fields and, for a packet with a comment, the
\* comment field.
C17_ShortValsCaught ==
    (EncCalled /\ EncUncompressed /\ HasShortVals(EncPacket)) =>
        /\ encOut.ret = "line"
        /\ Len(encOut.tags) = 3
        /\ SubSeq(encOut.fields, 1, 5) = PositionFields(EncPacket)
        /\ ( /\ HasStringComment(EncPacket)
             /\ \E i \in 1..Len(EncPacket.comment[1].chars) :
                    IsAscii(EncPacket.comment[1].chars[i]) ) =>
              encOut.fields[Len(encOut.fields)].k = "comment"

\* C18: whenever callback catches an error of write_points, of either kind, it
\* logs the error and, with it, the packet.
C18_WriteErrorLoggedWithPacket ==
    \A k \in 1..Len(writes) :
        writes[k].outcome \in CaughtWriteErrors =>
            \E i \in 1..(Len(log) - 1) :
                /\ log[i] = LogExc("callback", writes[k].outcome)
                /\ log[i + 1] = LogPacket("callback", writes[k].id)

\* C19 as claimed: once both threads are started no login is made any more.
C19_NoLoginAfterStartup ==
    [][mainPc = "returned" => logins' = logins]_vars

\* C19 amended: main logs in once, before the threads; it and the heartbeat
\* thread never log in again.  A later login is made by conn.consumer alone,
\* one session at a time, while the consumer waits for data (immortal=True).
C19_OnlyConsumerReconnects ==
    [][logins' # logins =>
          /\ logins' = logins + 1
          /\ \/ (mainPc = "connect" /\ logins = 0 /\ mainPc' = "start_t1")
             \/ (mainPc = "returned" /\ consPc = "wait" /\ consPc' = "wait"
                 /\ UNCHANGED <<mainPc, hbPc, beats, hbTrace>>)
      ]_vars

\* C19 witness: the session was opened a second time, by the consumer
C19_Witness ==
    /\ logins = 2
    /\ mainPc = "returned"
    /\ consPc = "wait"

\* the comment fields of the returned line
CommentFields == {i \in 1..Len(encOut.fields) : encOut.fields[i].k = "comment"}

\* C20: for an uncompressed packet with a string comment the line has one
\* comment field when the comment without its non-ASCII characters is not
\* empty (whether or not it is empty once the double quotes are gone) and none
\* otherwise; the value between the wrapping quotes has no double quote.
C20_CommentEmittedIffNonEmpty ==
    (EncCalled /\ EncUncompressed /\ HasStringComment(EncPacket)) =>
        LET ascii == SelectSeq(EncPacket.comment[1].chars, IsAscii)
        IN /\ Cardinality(CommentFields) = (IF ascii # <<>> THEN 1 ELSE 0)
           /\ \A i \in CommentFields :
                 encOut.fields[i].v = "\"" \o Text(WithoutQuotes(ascii)) \o "\""
====
